---- MODULE Spec2Model ----
(***************************************************************************)
(* Model of the sequential-thinking MCP server (Streamable HTTP):          *)
(*   - SequentialThinkingServer: validateThoughtData / processThought      *)
(*   - the session registry kept by runServer(): the maps transports and   *)
(*     sessionStates, the POST/GET/DELETE /mcp routes, the tool handlers   *)
(*     and the setInterval session cleanup.                                *)
(* JavaScript values are tagged records so that typeof and truthiness are  *)
(* computed the way the runtime computes them.                             *)
(***************************************************************************)
EXTENDS Integers, Sequences, FiniteSets, TLC

VARIABLES transports, sessionStates, now, uuids, closedSessions, successes,
          req, resp, input, output, inflight, reaped

vars == <<transports, sessionStates, now, uuids, closedSessions, successes,
          req, resp, input, output, inflight, reaped>>

(***************************************************************************)
(* Bounds of the model.                                                    *)
(***************************************************************************)
MaxHistory == 2
MaxSessions == 2
MaxClock == 1

(***************************************************************************)
(* Program constants.                                                      *)
(***************************************************************************)
SESSION_TIMEOUT_MS == 60 * 60 * 1000
ToolName == "sequentialthinking"

(***************************************************************************)
(* JavaScript values.                                                      *)
(***************************************************************************)
Undef == [t |-> "undefined", n |-> 0, s |-> "", b |-> FALSE]
Num(k) == [t |-> "number", n |-> k, s |-> "", b |-> FALSE]
NaN == [t |-> "number", n |-> 0, s |-> "NaN", b |-> FALSE]
\* The non-integer number k + 0.5.
Frac(k) == [t |-> "number", n |-> k, s |-> ".5", b |-> FALSE]
Str(x) == [t |-> "string", n |-> 0, s |-> x, b |-> FALSE]
Bool(x) == [t |-> "boolean", n |-> 0, s |-> "", b |-> x]

TypeOf(v) == v.t

\* ToBoolean: undefined, 0, NaN, "" and false are falsy.
Truthy(v) ==
  CASE v.t = "undefined" -> FALSE
    [] v.t = "number" -> v.s # "NaN" /\ (v.n # 0 \/ v.s = ".5")
    [] v.t = "string" -> v.s # ""
    [] v.t = "boolean" -> v.b

\* Twice the value of a number that is not NaN.
Twice(v) == 2 * v.n + (IF v.s = ".5" THEN 1 ELSE 0)

\* a > b on two numbers: false when either is NaN.
Greater(a, b) == a.s # "NaN" /\ b.s # "NaN" /\ Twice(a) > Twice(b)

(***************************************************************************)
(* SequentialThinkingServer                                                *)
(***************************************************************************)
NewServer == [thoughtHistory |-> <<>>,
              branches |-> [keys |-> <<>>, at |-> <<>>]]

\* Property names every object literal {} inherits from Object.prototype.
ObjectPrototypeKeys == {"constructor"}

ErrThought == "Invalid thought: must be a string"
ErrThoughtNumber == "Invalid thoughtNumber: must be a number"
ErrTotalThoughts == "Invalid totalThoughts: must be a number"
ErrNextThoughtNeeded == "Invalid nextThoughtNeeded: must be a boolean"
ErrPush == "this.branches[validatedInput.branchId].push is not a function"
\* The TypeError of reading data.thought when the input is null or undefined.
ErrRead(kind) == "Cannot read properties of " \o kind \o " (reading 'thought')"

\* validateThoughtData with the first two checks swapped.
validateThoughtData_NumberFirst(data) ==
  IF data.kind \in {"null", "undefined"}
  THEN [ok |-> FALSE, error |-> ErrRead(data.kind), value |-> data]
  ELSE IF ~Truthy(data.thoughtNumber) \/ TypeOf(data.thoughtNumber) # "number"
  THEN [ok |-> FALSE, error |-> ErrThoughtNumber, value |-> data]
  ELSE IF ~Truthy(data.thought) \/ TypeOf(data.thought) # "string"
  THEN [ok |-> FALSE, error |-> ErrThought, value |-> data]
  ELSE IF ~Truthy(data.totalThoughts) \/ TypeOf(data.totalThoughts) # "number"
  THEN [ok |-> FALSE, error |-> ErrTotalThoughts, value |-> data]
  ELSE IF TypeOf(data.nextThoughtNeeded) # "boolean"
  THEN [ok |-> FALSE, error |-> ErrNextThoughtNeeded, value |-> data]
  ELSE [ok |-> TRUE, error |-> "", value |-> data]

validateThoughtData(data) ==
  IF data.kind \in {"null", "undefined"}
  THEN [ok |-> FALSE, error |-> ErrRead(data.kind), value |-> data]
  ELSE IF ~Truthy(data.thought) \/ TypeOf(data.thought) # "string"
  THEN [ok |-> FALSE, error |-> ErrThought, value |-> data]
  ELSE IF ~Truthy(data.thoughtNumber) \/ TypeOf(data.thoughtNumber) # "number"
  THEN [ok |-> FALSE, error |-> ErrThoughtNumber, value |-> data]
  ELSE IF ~Truthy(data.totalThoughts) \/ TypeOf(data.totalThoughts) # "number"
  THEN [ok |-> FALSE, error |-> ErrTotalThoughts, value |-> data]
  ELSE IF TypeOf(data.nextThoughtNeeded) # "boolean"
  THEN [ok |-> FALSE, error |-> ErrNextThoughtNeeded, value |-> data]
  ELSE [ok |-> TRUE, error |-> "",
        value |-> [thought |-> data.thought,
                   thoughtNumber |-> data.thoughtNumber,
                   totalThoughts |-> data.totalThoughts,
                   nextThoughtNeeded |-> data.nextThoughtNeeded,
                   isRevision |-> data.isRevision,
                   revisesThought |-> data.revisesThought,
                   branchFromThought |-> data.branchFromThought,
                   branchId |-> data.branchId,
                   needsMoreThoughts |-> data.needsMoreThoughts]]

\* The property key a primitive value is converted to when it indexes an
\* object (String(v)); k + 0.5 is written for k >= 0.
ToKey(v) ==
  CASE v.t = "string" -> v.s
    [] v.t = "boolean" -> IF v.b THEN "true" ELSE "false"
    [] v.t = "number" -> IF v.s = "NaN" THEN "NaN" ELSE ToString(v.n) \o v.s
    [] v.t = "undefined" -> "undefined"

\* Index of key k in the own keys of a branches object, 0 when absent.
KeyIndex(branches, k) ==
  IF \E i \in 1..Len(branches.keys) : branches.keys[i] = k
  THEN CHOOSE i \in 1..Len(branches.keys) : branches.keys[i] = k
  ELSE 0

\* this.branches[k]: an own array, an inherited (non-array) member of
\* Object.prototype, or undefined.
BranchLookup(branches, k) ==
  IF KeyIndex(branches, k) # 0 THEN "array"
  ELSE IF k \in ObjectPrototypeKeys THEN "inherited"
  ELSE "undefined"

\* BranchPush adding the record at the front of the bucket (unshift).
BranchPush_Front(branches, k, rec) ==
  IF KeyIndex(branches, k) # 0
  THEN [branches EXCEPT !.at[KeyIndex(branches, k)] = <<rec>> \o @]
  ELSE [keys |-> Append(branches.keys, k),
        at |-> Append(branches.at, <<rec>>)]

\* this.branches[k].push(rec), creating the bucket first when absent.
BranchPush(branches, k, rec) ==
  IF KeyIndex(branches, k) # 0
  THEN [branches EXCEPT !.at[KeyIndex(branches, k)] = Append(@, rec)]
  ELSE [keys |-> Append(branches.keys, k),
        at |-> Append(branches.at, <<rec>>)]

ErrorResult(msg) ==
  [isError |-> Bool(TRUE), error |-> msg,
   thoughtNumber |-> Undef, totalThoughts |-> Undef,
   nextThoughtNeeded |-> Undef, branches |-> <<>>,
   thoughtHistoryLength |-> 0]

SuccessResult(rec, server) ==
  [isError |-> Undef, error |-> "",
   thoughtNumber |-> rec.thoughtNumber, totalThoughts |-> rec.totalThoughts,
   nextThoughtNeeded |-> rec.nextThoughtNeeded,
   branches |-> server.branches.keys,
   thoughtHistoryLength |-> Len(server.thoughtHistory)]

\* AdjustTotal without the adjustment.
AdjustTotal_NoRaise(rec) == rec

\* The record after the estimate adjustment of processThought.
AdjustTotal(rec) ==
  IF Greater(rec.thoughtNumber, rec.totalThoughts)
  THEN [rec EXCEPT !.totalThoughts = rec.thoughtNumber]
  ELSE rec

\* The branch condition of processThought.
IsBranch(rec) == Truthy(rec.branchFromThought) /\ Truthy(rec.branchId)

\* processThought adding the record at the front of the history (unshift).
processThought_Prepend(server, data) ==
  LET v == validateThoughtData(data)
      rec == AdjustTotal(v.value)
      pushed == [server EXCEPT !.thoughtHistory = <<rec>> \o @]
      k == ToKey(rec.branchId)
  IN IF ~v.ok
     THEN [server |-> server, result |-> ErrorResult(v.error), threw |-> FALSE]
     ELSE IF ~IsBranch(rec)
     THEN [server |-> pushed, result |-> SuccessResult(rec, pushed),
           threw |-> FALSE]
     ELSE IF BranchLookup(server.branches, k) = "inherited"
     THEN [server |-> pushed, result |-> ErrorResult(ErrPush), threw |-> FALSE]
     ELSE LET done == [pushed EXCEPT
                         !.branches = BranchPush(server.branches, k, rec)]
          IN [server |-> done, result |-> SuccessResult(rec, done),
              threw |-> FALSE]

\* processThought with validateThoughtData called outside the try block: a
\* validation error escapes to the caller.
processThought_NoCatch(server, data) ==
  LET v == validateThoughtData(data)
      rec == AdjustTotal(v.value)
      pushed == [server EXCEPT !.thoughtHistory = Append(@, rec)]
      k == ToKey(rec.branchId)
  IN IF ~v.ok
     THEN [server |-> server, result |-> ErrorResult(v.error), threw |-> TRUE]
     ELSE IF ~IsBranch(rec)
     THEN [server |-> pushed, result |-> SuccessResult(rec, pushed),
           threw |-> FALSE]
     ELSE IF BranchLookup(server.branches, k) = "inherited"
     THEN [server |-> pushed, result |-> ErrorResult(ErrPush), threw |-> FALSE]
     ELSE LET done == [pushed EXCEPT
                         !.branches = BranchPush(server.branches, k, rec)]
          IN [server |-> done, result |-> SuccessResult(rec, done),
              threw |-> FALSE]

\* processThought: the server after the call and the result returned; threw
\* tells whether an exception escapes to the caller instead.  The
\* try block runs statement by statement; an exception leaves the effects of
\* the statements already executed and yields the catch block's result.
processThought(server, data) ==
  LET v == validateThoughtData(data)
      rec == AdjustTotal(v.value)
      pushed == [server EXCEPT !.thoughtHistory = Append(@, rec)]
      k == ToKey(rec.branchId)
  IN IF ~v.ok
     THEN [server |-> server, result |-> ErrorResult(v.error), threw |-> FALSE]
     ELSE IF ~IsBranch(rec)
     THEN [server |-> pushed, result |-> SuccessResult(rec, pushed),
           threw |-> FALSE]
     ELSE IF BranchLookup(server.branches, k) = "inherited"
     THEN [server |-> pushed, result |-> ErrorResult(ErrPush), threw |-> FALSE]
     ELSE LET done == [pushed EXCEPT
                         !.branches = BranchPush(server.branches, k, rec)]
          IN [server |-> done, result |-> SuccessResult(rec, done),
              threw |-> FALSE]

(***************************************************************************)
(* Inputs.                                                                 *)
(***************************************************************************)
Payload(th, tn, tt, ntn, bft, bid) ==
  [kind |-> "object", thought |-> th, thoughtNumber |-> tn, totalThoughts |-> tt,
   nextThoughtNeeded |-> ntn, isRevision |-> Undef, revisesThought |-> Undef,
   branchFromThought |-> bft, branchId |-> bid, needsMoreThoughts |-> Undef]

NoPayload == Payload(Undef, Undef, Undef, Undef, Undef, Undef)

\* Inputs that are not objects: null, undefined, and a primitive (whose
\* properties all read as undefined).
NonObject(kind) == [NoPayload EXCEPT !.kind = kind]
NonObjects == {NonObject("null"), NonObject("undefined"), NonObject("primitive")}

\* Every combination of present/absent/wrongly typed required fields.
ValidatorInputs ==
  { Payload(th, tn, tt, ntn, Undef, Undef) :
      th \in {Undef, Str(""), Num(7), Str("A")},
      tn \in {Undef, Str("1"), Num(0), NaN, Num(-1), Frac(1), Num(1), Num(2)},
      tt \in {Undef, Str("1"), Num(0), NaN, Num(-1), Frac(1), Num(1), Num(2)},
      ntn \in {Undef, Str("true"), Bool(FALSE), Bool(TRUE)} }
  \cup NonObjects

\* Valid required fields (with and without a low estimate) combined with the
\* branch annotations, plus one payload failing each validation check.
LedgerPayloads ==
  { Payload(Str("A"), r[1], r[2], r[3], o[1], o[2]) :
      r \in { <<Num(1), Num(2), Bool(TRUE)>>,
              <<Num(2), Num(1), Bool(FALSE)>>,
              <<Num(2), Num(2), Bool(TRUE)>> },
      o \in { <<Undef, Undef>>, <<Num(1), Undef>>, <<Num(1), Str("b1")>>,
              <<Num(2), Str("b2")>>, <<Num(1), Str("")>>,
              <<Num(0), Str("b1")>>, <<Num(1), Str("constructor")>> } }
  \cup { Payload(Undef, Num(1), Num(1), Bool(TRUE), Undef, Undef),
         Payload(Str("A"), Str("1"), Num(1), Bool(TRUE), Num(1), Str("b1")),
         Payload(Str("A"), Num(1), Num(0), Bool(TRUE), Undef, Undef),
         Payload(Str("A"), Num(1), Num(1), Undef, Undef, Undef),
         Payload(Str("A"), Num(-1), Num(1), Bool(TRUE), Undef, Undef),
         NonObject("null") }

\* A payload with valid required fields and the five optional fields given.
OptionalPayload(rev, revises, bft, bid, more) ==
  [Payload(Str("A"), Num(1), Num(1), Bool(TRUE), bft, bid)
     EXCEPT !.isRevision = rev, !.revisesThought = revises,
            !.needsMoreThoughts = more]

\* Valid required fields with optional fields that are absent, well typed
\* (naming records that do not exist), or of another type; and one payload
\* with optional fields whose required fields are invalid.
OptionalPayloads ==
  { OptionalPayload(Undef, Undef, Undef, Undef, Undef),
    OptionalPayload(Bool(TRUE), Num(7), Undef, Undef, Bool(FALSE)),
    OptionalPayload(Str("yes"), Str("x"), Undef, Undef, Num(0)),
    OptionalPayload(Undef, Undef, Num(9), Str("b1"), Undef),
    OptionalPayload(Bool(FALSE), Undef, Frac(1), Str("b1"), Bool(TRUE)),
    OptionalPayload(Undef, Undef, Str("x"), Num(5), Undef),
    OptionalPayload(Undef, Undef, Bool(TRUE), Bool(TRUE), Undef),
    OptionalPayload(Undef, Undef, Num(1), Str("constructor"), Undef),
    OptionalPayload(Undef, Undef, Num(1), Str("b2"), Undef),
    OptionalPayload(Bool(TRUE), Num(1), Num(1), Str("b1"), Bool(TRUE)),
    OptionalPayload(Undef, Undef, NaN, Str("b1"), Undef),
    OptionalPayload(Undef, Undef, Num(1), Frac(1), Undef),
    [OptionalPayload(Bool(TRUE), Num(1), Num(1), Str("b1"), Undef)
       EXCEPT !.thought = Undef] }

\* One valid and one invalid payload.
RegistryPayloads ==
  { Payload(Str("A"), Num(2), Num(1), Bool(TRUE), Undef, Undef),
    Payload(Undef, Num(1), Num(1), Bool(TRUE), Undef, Undef) }

\* A plain thought, a branch thought and an invalid payload.
IsolationPayloads ==
  { Payload(Str("A"), Num(2), Num(1), Bool(TRUE), Undef, Undef),
    Payload(Str("A"), Num(1), Num(1), Bool(TRUE), Num(1), Str("b1")),
    Payload(Undef, Num(1), Num(1), Bool(TRUE), Undef, Undef) }

ToolNames == {ToolName, "othertool"}

\* Values of the mcp-session-id header: absent, the ids randomUUID can
\* return within the bounds, and one id that is never generated.
NoHeader == 0
ForeignId == MaxSessions + 1
Headers == 0..(MaxSessions + 1)

\* The instants at which Date.now() is read: the start, one full timeout
\* later, and up to MaxClock ms after that.
Instants == {0} \cup (SESSION_TIMEOUT_MS..(SESSION_TIMEOUT_MS + MaxClock))

(***************************************************************************)
(* Requests and responses.                                                 *)
(***************************************************************************)
NoResult == ErrorResult("")

Request(name, args) == [name |-> name, arguments |-> args]
NoRequest == Request("", NoPayload)

Response(kind, status, sid, result) ==
  [kind |-> kind, status |-> status, sessionId |-> sid, result |-> result]
NoResponse == Response("none", 0, NoHeader, NoResult)

\* 400 'Bad Request: No valid session ID provided' of POST /mcp.
BadRequest(h) == Response("badRequest", 400, h, NoResult)

\* 400 'Invalid or missing session ID' of GET and DELETE /mcp.
InvalidSession(h) == Response("invalidSession", 400, h, NoResult)

(***************************************************************************)
(* runServer: registry helpers.                                            *)
(***************************************************************************)
\* delete f[k] removing the newest key when k is not a key of f.
Delete_Pop(f, k) ==
  IF k \in DOMAIN f \/ DOMAIN f = {}
  THEN [x \in (DOMAIN f) \ {k} |-> f[x]]
  ELSE LET last == CHOOSE x \in DOMAIN f : \A y \in DOMAIN f : y <= x
       IN [x \in (DOMAIN f) \ {last} |-> f[x]]

\* f with key k removed (delete f[k]).
Delete(f, k) == [x \in (DOMAIN f) \ {k} |-> f[x]]

\* f with key k set to v (f[k] = v).
Put(f, k, v) == [x \in (DOMAIN f) \cup {k} |-> IF x = k THEN v ELSE f[x]]

\* randomUUID returning the id it returned last.
randomUUID_Repeat == IF uuids = 0 THEN 1 ELSE uuids

\* randomUUID(): an id that was never returned before.
randomUUID == uuids + 1

\* Sum of the history lengths of the registered sessions.
RECURSIVE TotalHistory(_, _)
TotalHistory(states, ids) ==
  IF ids = {} THEN 0
  ELSE LET k == CHOOSE x \in ids : TRUE
       IN Len(states[k].server.thoughtHistory) + TotalHistory(states, ids \ {k})

\* CallToolHandler resolving every call to the oldest registered session.
CallToolHandler_Shared(states, sessionId, name, args) ==
  IF sessionId = NoHeader \/ sessionId \notin DOMAIN states
  THEN [states |-> states,
        result |-> ErrorResult("Session not found for tool call")]
  ELSE LET first == CHOOSE x \in DOMAIN states :
                      \A y \in DOMAIN states : x <= y
           touched == [states EXCEPT ![first].lastAccessed = now]
       IN IF name = ToolName
          THEN LET r == processThought(touched[first].server, args)
               IN [states |-> [touched EXCEPT ![first].server = r.server],
                   result |-> r.result]
          ELSE [states |-> touched,
                result |-> ErrorResult("Unknown tool: " \o name)]

\* CallToolHandler passing every tool name to processThought.
CallToolHandler_AnyTool(states, sessionId, name, args) ==
  IF sessionId = NoHeader \/ sessionId \notin DOMAIN states
  THEN [states |-> states,
        result |-> ErrorResult("Session not found for tool call")]
  ELSE LET touched == [states EXCEPT ![sessionId].lastAccessed = now]
           r == processThought(touched[sessionId].server, args)
       IN [states |-> [touched EXCEPT ![sessionId].server = r.server],
           result |-> r.result]

\* The CallToolRequestSchema handler: the session states after the call and
\* the tool result.
CallToolHandler(states, sessionId, name, args) ==
  IF sessionId = NoHeader \/ sessionId \notin DOMAIN states
  THEN [states |-> states,
        result |-> ErrorResult("Session not found for tool call")]
  ELSE LET touched == [states EXCEPT ![sessionId].lastAccessed = now]
       IN IF name = ToolName
          THEN LET r == processThought(touched[sessionId].server, args)
               IN [states |-> [touched EXCEPT ![sessionId].server = r.server],
                   result |-> r.result]
          ELSE [states |-> touched,
                result |-> ErrorResult("Unknown tool: " \o name)]

\* CleanupOne deleting the session state but leaving the transport.
CleanupOne_StateOnly(reg, sessionId) ==
  IF sessionId \in DOMAIN reg.states
     /\ now - reg.states[sessionId].lastAccessed > SESSION_TIMEOUT_MS
  THEN [reg EXCEPT !.states = Delete(reg.states, sessionId),
                   !.closed = Put(reg.closed, sessionId, "timeout")]
  ELSE reg

\* CleanupOne comparing the idle time the wrong way round.
CleanupOne_Reversed(reg, sessionId) ==
  IF sessionId \in DOMAIN reg.states
     /\ reg.states[sessionId].lastAccessed - now > SESSION_TIMEOUT_MS
  THEN [transports |-> Delete(reg.transports, sessionId),
        states |-> Delete(reg.states, sessionId),
        closed |-> Put(reg.closed, sessionId, "timeout")]
  ELSE reg

\* CleanupOne evicting at an idle time equal to the timeout (>= for >).
CleanupOne_NonStrict(reg, sessionId) ==
  IF sessionId \in DOMAIN reg.states
     /\ now - reg.states[sessionId].lastAccessed >= SESSION_TIMEOUT_MS
  THEN [transports |-> Delete(reg.transports, sessionId),
        states |-> Delete(reg.states, sessionId),
        closed |-> Put(reg.closed, sessionId, "timeout")]
  ELSE reg

\* One iteration of the cleanup loop for sessionId.
CleanupOne(reg, sessionId) ==
  IF sessionId \in DOMAIN reg.states
     /\ now - reg.states[sessionId].lastAccessed > SESSION_TIMEOUT_MS
  THEN IF sessionId \in DOMAIN reg.transports
       THEN [transports |-> Delete(reg.transports, sessionId),
             states |-> Delete(reg.states, sessionId),
             closed |-> Put(reg.closed, sessionId, "timeout")]
       ELSE [reg EXCEPT !.states = Delete(reg.states, sessionId)]
  ELSE reg

\* CleanupLoop leaving the loop after the first eviction.
RECURSIVE CleanupLoop_StopAtFirst(_, _)
CleanupLoop_StopAtFirst(reg, i) ==
  IF i > uuids THEN reg
  ELSE LET r == CleanupOne(reg, i)
       IN IF r # reg THEN r ELSE CleanupLoop_StopAtFirst(r, i + 1)

\* The for...in loop of the cleanup timer, over the ids in insertion order.
RECURSIVE CleanupLoop(_, _)
CleanupLoop(reg, i) ==
  IF i > uuids THEN reg
  ELSE CleanupLoop(CleanupOne(reg, i), i + 1)

NoOutput == [done |-> FALSE, ok |-> FALSE, error |-> "",
             isError |-> Undef, message |-> "", threw |-> FALSE]

(***************************************************************************)
(* Initial state.                                                          *)
(***************************************************************************)
Init ==
  /\ transports = <<>>
  /\ sessionStates = <<>>
  /\ now = 0
  /\ uuids = 0
  /\ closedSessions = <<>>
  /\ successes = <<>>
  /\ req = NoRequest
  /\ resp = NoResponse
  /\ input = NoPayload
  /\ output = NoOutput
  /\ inflight = {}
  /\ reaped = {}

(***************************************************************************)
(* Actions.                                                                *)
(***************************************************************************)
\* PostInitialize storing the transport but creating no session state.
PostInitialize_TransportOnly(limit) ==
  /\ uuids < limit
  /\ LET newSessionId == randomUUID
     IN /\ transports' = Put(transports, newSessionId,
                             [sessionId |-> newSessionId])
        /\ successes' = Put(successes, newSessionId, 0)
        /\ uuids' = uuids + 1
        /\ resp' = Response("initialize", 200, newSessionId, NoResult)
  /\ req' = NoRequest
  /\ UNCHANGED <<sessionStates, now, closedSessions, input, output, inflight>>
  /\ reaped' = {}

\* POST /mcp without a session id and with an initialize body.
PostInitialize(limit) ==
  /\ uuids < limit
  /\ LET newSessionId == randomUUID
     IN /\ transports' = Put(transports, newSessionId,
                             [sessionId |-> newSessionId])
        /\ sessionStates' = Put(sessionStates, newSessionId,
                                [server |-> NewServer, lastAccessed |-> now])
        /\ successes' = Put(successes, newSessionId, 0)
        /\ uuids' = uuids + 1
        /\ resp' = Response("initialize", 200, newSessionId, NoResult)
  /\ req' = NoRequest
  /\ UNCHANGED <<now, closedSessions, input, output, inflight>>
  /\ reaped' = {}

\* POST /mcp with a tools/call body on an existing transport.
PostCallTool(h, name, args) ==
  /\ h # NoHeader /\ h \in DOMAIN transports
  /\ TotalHistory(sessionStates, DOMAIN sessionStates) < MaxHistory
  /\ LET r == CallToolHandler(sessionStates, transports[h].sessionId, name, args)
     IN /\ sessionStates' = r.states
        /\ resp' = Response("tools/call", 200, h, r.result)
        /\ successes' = IF r.result.isError = Bool(TRUE) THEN successes
                        ELSE [successes EXCEPT ![h] = @ + 1]
  /\ req' = Request(name, args)
  /\ UNCHANGED <<transports, now, uuids, closedSessions, input, output, inflight>>
  /\ reaped' = {}

\* POST /mcp with a tools/list body on an existing transport.
PostListTools(h) ==
  /\ h # NoHeader /\ h \in DOMAIN transports
  /\ resp' = Response("tools/list", 200, h, NoResult)
  /\ req' = NoRequest
  /\ UNCHANGED <<transports, sessionStates, now, uuids, closedSessions,
                 successes, input, output, inflight>>
  /\ reaped' = {}

\* PostInvalid creating a session state for an unknown session id.
PostInvalid_Lazy(h, method) ==
  /\ ~(h # NoHeader /\ h \in DOMAIN transports)
  /\ ~(h = NoHeader /\ method = "initialize")
  /\ resp' = BadRequest(h)
  /\ req' = NoRequest
  /\ sessionStates' =
       IF h # NoHeader
       THEN Put(sessionStates, h, [server |-> NewServer, lastAccessed |-> now])
       ELSE sessionStates
  /\ UNCHANGED <<transports, now, uuids, closedSessions,
                 successes, input, output, inflight>>
  /\ reaped' = {}

\* POST /mcp that neither names an existing transport nor is an
\* initialize request without a session id.
PostInvalid(h, method) ==
  /\ ~(h # NoHeader /\ h \in DOMAIN transports)
  /\ ~(h = NoHeader /\ method = "initialize")
  /\ resp' = BadRequest(h)
  /\ req' = NoRequest
  /\ UNCHANGED <<transports, sessionStates, now, uuids, closedSessions,
                 successes, input, output, inflight>>
  /\ reaped' = {}

\* GET /mcp (handleSessionRequest): the SSE stream of a session.
GetStream(h) ==
  /\ IF h = NoHeader \/ h \notin DOMAIN transports
     THEN /\ resp' = InvalidSession(h)
          /\ UNCHANGED sessionStates
     ELSE /\ sessionStates' =
               IF h \in DOMAIN sessionStates
               THEN [sessionStates EXCEPT ![h].lastAccessed = now]
               ELSE sessionStates
          /\ resp' = Response("stream", 200, h, NoResult)
  /\ req' = NoRequest
  /\ UNCHANGED <<transports, now, uuids, closedSessions, successes,
                 input, output, inflight>>
  /\ reaped' = {}

\* OnClose deleting the transport but leaving the session state.
OnClose_TransportOnly(sid, cause) ==
  /\ transports' = Delete(transports, sid)
  /\ UNCHANGED <<sessionStates, successes>>
  /\ closedSessions' = IF sid \in DOMAIN closedSessions THEN closedSessions
                        ELSE Put(closedSessions, sid, cause)

\* transport.onclose for the transport of session sid; closedSessions keeps
\* the cause of the first close.
OnClose(sid, cause) ==
  /\ transports' = Delete(transports, sid)
  /\ sessionStates' = Delete(sessionStates, sid)
  /\ successes' = Delete(successes, sid)
  /\ closedSessions' = IF sid \in DOMAIN closedSessions THEN closedSessions
                        ELSE Put(closedSessions, sid, cause)

\* DELETE /mcp (handleSessionRequest): the transport closes itself.
DeleteSession(h) ==
  /\ IF h = NoHeader \/ h \notin DOMAIN transports
     THEN /\ resp' = InvalidSession(h)
          /\ UNCHANGED <<transports, sessionStates, successes, closedSessions>>
     ELSE /\ OnClose(transports[h].sessionId, "delete")
          /\ resp' = Response("terminate", 200, h, NoResult)
  /\ req' = NoRequest
  /\ UNCHANGED <<now, uuids, input, output, inflight>>
  /\ reaped' = {}

\* DELETE /mcp up to the await of transport.handleRequest: the session id
\* passed the check and the request is handed to its transport.
DeleteAdmit(h) ==
  /\ h # NoHeader /\ h \in DOMAIN transports
  /\ h \notin inflight
  /\ inflight' = inflight \cup {h}
  /\ reaped' = {}
  /\ UNCHANGED <<transports, sessionStates, now, uuids, closedSessions,
                 successes, req, resp, input, output>>

\* The transport of session sid finishes an admitted DELETE: it closes
\* itself, whether or not it was closed in the meantime.
DeleteClose(sid) ==
  /\ sid \in inflight
  /\ OnClose(sid, "delete")
  /\ inflight' = inflight \ {sid}
  /\ resp' = Response("terminate", 200, sid, NoResult)
  /\ req' = NoRequest
  /\ reaped' = {}
  /\ UNCHANGED <<now, uuids, input, output>>

\* The setInterval callback: one sweep over sessionStates.
CleanupTick ==
  /\ LET r == CleanupLoop([transports |-> transports,
                           states |-> sessionStates,
                           closed |-> closedSessions], 1)
     IN /\ transports' = r.transports
        /\ sessionStates' = r.states
        /\ closedSessions' = r.closed
        /\ successes' = [x \in DOMAIN r.states |-> successes[x]]
        /\ reaped' = (DOMAIN sessionStates) \ (DOMAIN r.states)
  /\ UNCHANGED <<now, uuids, req, resp, input, output, inflight>>

\* Date.now() moves forward.
AdvanceClock(t) ==
  /\ t > now
  /\ now' = t
  /\ UNCHANGED <<transports, sessionStates, uuids, closedSessions, successes,
                 req, resp, input, output, inflight>>
  /\ reaped' = {}

Next ==
  \/ PostInitialize(MaxSessions)
  \/ \E h \in Headers, name \in ToolNames, args \in RegistryPayloads :
       PostCallTool(h, name, args)
  \/ \E h \in Headers : PostListTools(h)
  \/ \E h \in Headers, method \in {"initialize", "tools/list", "tools/call"} :
       PostInvalid(h, method)
  \/ \E h \in Headers : GetStream(h)
  \/ \E h \in Headers : DeleteSession(h)
  \/ CleanupTick
  \/ \E t \in Instants : AdvanceClock(t)

Spec == Init /\ [][Next]_vars

(***************************************************************************)
(* One session driven by tool calls only, over the larger payload set.     *)
(***************************************************************************)
NextLedger ==
  \/ PostInitialize(1)
  \/ \E h \in Headers, name \in ToolNames, args \in LedgerPayloads :
       PostCallTool(h, name, args)

SpecLedger == Init /\ [][NextLedger]_vars

(***************************************************************************)
(* Several sessions receiving tool calls and stream reads while the clock  *)
(* advances; no session is closed.                                         *)
(***************************************************************************)
NextIsolation ==
  \/ PostInitialize(MaxSessions)
  \/ \E h \in Headers, name \in ToolNames, args \in IsolationPayloads :
       PostCallTool(h, name, args)
  \/ \E h \in Headers : GetStream(h)
  \/ \E t \in Instants : AdvanceClock(t)

SpecIsolation == Init /\ [][NextIsolation]_vars

(***************************************************************************)
(* Explicit termination split at its await, racing the cleanup timer and   *)
(* calls on other sessions.                                                *)
(***************************************************************************)
NextRace ==
  \/ PostInitialize(MaxSessions)
  \/ \E h \in Headers, args \in RegistryPayloads :
       PostCallTool(h, ToolName, args)
  \/ \E h \in Headers : DeleteAdmit(h)
  \/ \E sid \in Headers : DeleteClose(sid)
  \/ \E h \in Headers : DeleteSession(h)
  \/ CleanupTick
  \/ \E t \in Instants : AdvanceClock(t)

SpecRace == Init /\ [][NextRace]_vars

(***************************************************************************)
(* Sessions that are created and read until the clock reaches Horizon,     *)
(* with the cleanup timer firing and the clock advancing fairly.           *)
(***************************************************************************)
Horizon == 2 * SESSION_TIMEOUT_MS + MaxClock + 1

LiveInstants == Instants \cup {Horizon}

NextLive ==
  \/ now < Horizon /\ PostInitialize(MaxSessions)
  \/ now < Horizon /\ \E h \in Headers : GetStream(h)
  \/ now < Horizon /\ \E h \in Headers : PostListTools(h)
  \/ CleanupTick
  \/ \E t \in LiveInstants : AdvanceClock(t)

SpecLive ==
  /\ Init
  /\ [][NextLive]_vars
  /\ WF_vars(CleanupTick)
  /\ WF_vars(\E t \in LiveInstants : AdvanceClock(t))

(***************************************************************************)
(* The cleanup timer over sessions whose last access times differ by a few *)
(* milliseconds, so that idle times just below, at and above the timeout   *)
(* meet in one run.                                                        *)
(***************************************************************************)
ReaperInstants ==
  (0..MaxClock) \cup (SESSION_TIMEOUT_MS..(SESSION_TIMEOUT_MS + MaxClock))

NextReaper ==
  \/ PostInitialize(MaxSessions)
  \/ \E h \in Headers, args \in RegistryPayloads :
       PostCallTool(h, ToolName, args)
  \/ \E h \in Headers : GetStream(h)
  \/ CleanupTick
  \/ \E t \in ReaperInstants : AdvanceClock(t)

SpecReaper == Init /\ [][NextReaper]_vars

(***************************************************************************)
(* One session receiving tool calls whose optional fields vary.            *)
(***************************************************************************)
NextOptional ==
  \/ PostInitialize(1)
  \/ \E h \in Headers, args \in OptionalPayloads :
       PostCallTool(h, ToolName, args)

SpecOptional == Init /\ [][NextOptional]_vars

(***************************************************************************)
(* validateThoughtData applied to one input.                               *)
(***************************************************************************)
InitValidate ==
  /\ transports = <<>>
  /\ sessionStates = <<>>
  /\ now = 0
  /\ uuids = 0
  /\ closedSessions = <<>>
  /\ successes = <<>>
  /\ req = NoRequest
  /\ resp = NoResponse
  /\ input \in ValidatorInputs
  /\ output = NoOutput
  /\ inflight = {}
  /\ reaped = {}

ApplyValidate ==
  /\ ~output.done
  /\ LET v == validateThoughtData(input)
         p == processThought(NewServer, input)
     IN output' = [done |-> TRUE, ok |-> v.ok, error |-> v.error,
                   isError |-> p.result.isError, message |-> p.result.error,
                   threw |-> p.threw]
  /\ UNCHANGED <<transports, sessionStates, now, uuids, closedSessions,
                 successes, req, resp, input, inflight, reaped>>

NextValidate == ApplyValidate

SpecValidate == InitValidate /\ [][NextValidate]_vars

(***************************************************************************)
(* Properties.                                                             *)
(***************************************************************************)
Range(q) == {q[i] : i \in 1..Len(q)}

\* The last response is the result of a tool call that did not fail.
LastCallSucceeded ==
  resp.kind = "tools/call" /\ resp.result.isError # Bool(TRUE)

\* The last response is the result of a tool call that failed.
LastCallFailed ==
  resp.kind = "tools/call" /\ resp.result.isError = Bool(TRUE)

\* C1: within one session the N-th successful processThought call returns
\* thoughtHistoryLength N (one more than the previous successful call, 1 for
\* the first).
C1_AppendMonotonic ==
  (LastCallSucceeded /\ resp.sessionId \in DOMAIN successes)
    => resp.result.thoughtHistoryLength = successes[resp.sessionId]

\* C2: a successful call returns totalThoughts equal to the submitted
\* thoughtNumber when that exceeds the submitted totalThoughts, and equal to
\* the submitted totalThoughts otherwise.
C2_EstimateAutoRaise ==
  LastCallSucceeded =>
    resp.result.totalThoughts =
      IF req.arguments.thoughtNumber.n > req.arguments.totalThoughts.n
      THEN req.arguments.thoughtNumber
      ELSE req.arguments.totalThoughts

C2_Witness ==
  /\ LastCallSucceeded
  /\ req.arguments.thoughtNumber = Num(2)
  /\ req.arguments.totalThoughts = Num(1)
  /\ resp.result.totalThoughts = Num(2)

\* C3: after a successful call whose payload carries branchFromThought = K
\* (a positive integer) and branchId = b (a string), the appended record is
\* in branches[b] and the returned branches list contains b.
C3_BranchMembership ==
  (/\ LastCallSucceeded
   /\ resp.sessionId \in DOMAIN sessionStates
   /\ req.arguments.branchFromThought.t = "number"
   /\ req.arguments.branchFromThought.n >= 1
   /\ req.arguments.branchId.t = "string")
    => LET server == sessionStates[resp.sessionId].server
           b == req.arguments.branchId.s
           i == KeyIndex(server.branches, b)
       IN /\ b \in Range(resp.result.branches)
          /\ i # 0
          /\ server.thoughtHistory[Len(server.thoughtHistory)]
               \in Range(server.branches.at[i])

PresentString(v) == v.t = "string" /\ v.s # ""
PresentNumber(v) == v.t = "number" /\ v.s # "NaN"
NonZeroNumber(v) == v.t = "number" /\ v.s # "NaN" /\ (v.n # 0 \/ v.s = ".5")
PresentBoolean(v) == v.t = "boolean"

\* The message of the first of the four checks that data fails, "" when it
\* passes all of them; NumberOk is the test applied to the two numbers.
FirstFailure(data, NumberOk(_)) ==
  IF ~PresentString(data.thought) THEN ErrThought
  ELSE IF ~NumberOk(data.thoughtNumber) THEN ErrThoughtNumber
  ELSE IF ~NumberOk(data.totalThoughts) THEN ErrTotalThoughts
  ELSE IF ~PresentBoolean(data.nextThoughtNeeded) THEN ErrNextThoughtNeeded
  ELSE ""

\* C4 as stated: the checks are thought a non-empty string, thoughtNumber
\* present and numeric, totalThoughts present and numeric, nextThoughtNeeded
\* boolean; the call fails with the message of the first failing check and a
\* payload passing all four is accepted.
C4_Original ==
  (output.done /\ input.kind \notin {"null", "undefined"}) =>
    /\ output.message = FirstFailure(input, PresentNumber)
    /\ output.ok <=> (FirstFailure(input, PresentNumber) = "")

\* C4 (amended): as above, where the two number checks also fail on 0 (and
\* NaN); the call fails with the message of the first failing check, and a
\* payload passing all four is accepted by the validator.
C4_ValidationOrder ==
  (output.done /\ input.kind \notin {"null", "undefined"}) =>
    /\ output.message = FirstFailure(input, NonZeroNumber)
    /\ (output.isError = Bool(TRUE)) <=> (FirstFailure(input, NonZeroNumber) # "")
    /\ output.ok <=> (FirstFailure(input, NonZeroNumber) = "")

C4_Witness ==
  /\ output.done
  /\ input.thought = Str("A")
  /\ input.thoughtNumber = Num(0)
  /\ input.totalThoughts = Undef
  /\ input.nextThoughtNeeded = Undef
  /\ output.isError = Bool(TRUE)
  /\ output.message = ErrThoughtNumber

AllPayloads == LedgerPayloads \cup RegistryPayloads \cup IsolationPayloads

\* The step is the tool call (name, args) on session id h.
ToolCallStep(h, name, args) ==
  /\ resp'.kind = "tools/call"
  /\ resp'.sessionId = h
  /\ req' = Request(name, args)
  /\ PostCallTool(h, name, args)

\* C5: a processThought call that returns an error result leaves the
\* session registered and its history and branches as they were.
C5_ErrorLeavesLedger ==
  [][\A sid \in DOMAIN sessionStates, name \in ToolNames, args \in AllPayloads :
       (ToolCallStep(sid, name, args) /\ resp'.result.isError = Bool(TRUE))
         => /\ sid \in DOMAIN sessionStates'
            /\ sessionStates'[sid].server = sessionStates[sid].server]_vars

\* A call of any kind carrying session id h.
CallOn(h) ==
  /\ resp'.sessionId = h
  /\ \/ \E name \in ToolNames, args \in AllPayloads :
          ToolCallStep(h, name, args)
     \/ PostListTools(h)
     \/ \E method \in {"initialize", "tools/list", "tools/call"} :
          PostInvalid(h, method)
     \/ GetStream(h)
     \/ DeleteSession(h)

\* The step is one run of the cleanup timer.
TickStep == resp' = resp /\ now' = now /\ CleanupTick

Idle(sid) == now - sessionStates[sid].lastAccessed > SESSION_TIMEOUT_MS

\* C6: a session that is idle for more than the timeout when the cleanup
\* runs is in neither map after that run, and every later call carrying its
\* id is answered 400.
C6_IdleEviction ==
  [][/\ TickStep =>
          \A sid \in DOMAIN sessionStates :
            Idle(sid) => /\ sid \notin DOMAIN sessionStates'
                         /\ sid \notin DOMAIN transports'
                         /\ sid \in DOMAIN closedSessions'
     /\ \A h \in DOMAIN closedSessions :
          (closedSessions[h] = "timeout" /\ CallOn(h))
            => /\ resp'.status = 400
               /\ resp'.sessionId = h
               /\ UNCHANGED <<transports, sessionStates>>]_vars

C6_Witness ==
  \E h \in DOMAIN closedSessions :
    /\ closedSessions[h] = "timeout"
    /\ resp.status = 400
    /\ resp.sessionId = h

\* C7: a tool call delivered on session A changes only A's session state,
\* appends at most to A's history, and its summary reports A's history
\* length and A's branch ids; every other session is unchanged.
C7_SessionIsolation ==
  [][\A a \in DOMAIN sessionStates, name \in ToolNames, args \in AllPayloads :
       ToolCallStep(a, name, args) =>
         /\ \A b \in (DOMAIN sessionStates) \ {a} :
              /\ b \in DOMAIN sessionStates'
              /\ sessionStates'[b] = sessionStates[b]
         /\ DOMAIN sessionStates' = DOMAIN sessionStates
         /\ resp'.sessionId = a
         /\ resp'.result.isError # Bool(TRUE) =>
              /\ resp'.result.thoughtHistoryLength =
                   Len(sessionStates[a].server.thoughtHistory) + 1
              /\ Len(sessionStates'[a].server.thoughtHistory) =
                   Len(sessionStates[a].server.thoughtHistory) + 1
              /\ resp'.result.branches =
                   sessionStates'[a].server.branches.keys
              /\ \A k \in Range(resp'.result.branches) :
                   \E r \in Range(sessionStates'[a].server.thoughtHistory) :
                     r.branchId = Str(k)]_vars

C7_Witness ==
  \E a \in DOMAIN sessionStates, b \in DOMAIN sessionStates :
    /\ a # b
    /\ LastCallSucceeded
    /\ resp.sessionId = a
    /\ resp.result.thoughtHistoryLength = 1
    /\ resp.result.branches = <<>>
    /\ sessionStates[b].server.branches.keys = <<"b1">>
    /\ sessionStates[b].lastAccessed < sessionStates[a].lastAccessed

\* C8: a call that is not an initialization and carries an unknown or no
\* session id is answered 400 and leaves both maps, the id counter and the
\* closed sessions as they were.
C8_UnknownSessionRejected ==
  [][\A h \in Headers :
       (/\ h = NoHeader \/ h \notin DOMAIN transports
        /\ resp'.sessionId = h
        /\ \/ \E method \in {"tools/list", "tools/call"} : PostInvalid(h, method)
           \/ \E name \in ToolNames, args \in AllPayloads :
                ToolCallStep(h, name, args)
           \/ PostListTools(h)
           \/ GetStream(h)
           \/ DeleteSession(h))
         => /\ resp'.status = 400
            /\ UNCHANGED <<transports, sessionStates, uuids, closedSessions>>]_vars

C8_Witness ==
  /\ resp.status = 400
  /\ resp.sessionId = ForeignId
  /\ DOMAIN sessionStates # {}
  /\ \E sid \in DOMAIN sessionStates :
       sessionStates[sid].server.thoughtHistory # <<>>

\* C9: a session id that has been removed from the registry is never
\* registered again; an id goes from absent to registered to closed and
\* makes no other transition.
C9_DestructionTerminal ==
  [][\A sid \in Headers :
       LET registered == sid \in DOMAIN sessionStates \/ sid \in DOMAIN transports
           registeredNext == sid \in DOMAIN sessionStates'
                               \/ sid \in DOMAIN transports'
           closed == sid \in DOMAIN closedSessions
           closedNext == sid \in DOMAIN closedSessions'
       IN /\ closed => (closedNext /\ ~registeredNext)
          /\ registered => (registeredNext \/ closedNext)
          /\ (~registered /\ ~closed) => ~closedNext
          /\ ~(registeredNext /\ closedNext)]_vars

C9_Witness ==
  \E sid \in DOMAIN closedSessions :
    /\ resp = BadRequest(sid)
    /\ \E other \in DOMAIN sessionStates : other > sid

\* C10: every POST routed through a registered session (tool calls and
\* tools/list) and every GET of its stream sets the session's lastAccessed
\* to the time of the call.
C10_EveryCallRefreshes ==
  [][\A h \in DOMAIN sessionStates :
       (/\ resp'.sessionId = h
        /\ \/ \E name \in ToolNames, args \in AllPayloads :
                ToolCallStep(h, name, args)
           \/ PostListTools(h)
           \/ GetStream(h))
         => /\ h \in DOMAIN sessionStates'
            /\ sessionStates'[h].lastAccessed = now]_vars

\* A number that is an integer >= 1.
PositiveInteger(v) == v.t = "number" /\ v.s = "" /\ v.n >= 1

\* C11: every record in a session's history has a thoughtNumber and a
\* totalThoughts that are integers >= 1, a non-empty string thought and a
\* boolean nextThoughtNeeded.
C11_RecordsWellTyped ==
  \A sid \in DOMAIN sessionStates :
    \A r \in Range(sessionStates[sid].server.thoughtHistory) :
      /\ PositiveInteger(r.thoughtNumber)
      /\ PositiveInteger(r.totalThoughts)
      /\ PresentString(r.thought)
      /\ PresentBoolean(r.nextThoughtNeeded)

\* The number of positions of q that hold r.
Occurrences(q, r) == Cardinality({i \in 1..Len(q) : q[i] = r})

\* C12: every appended record that has both branchFromThought and branchId
\* set is once in history and once in branches[branchId]: for each branch
\* id b, branches[b] holds exactly the history records tagged b, as often
\* as history does.
C12_BranchIndex ==
  \A sid \in DOMAIN sessionStates :
    LET server == sessionStates[sid].server
    IN \A r \in Range(server.thoughtHistory) :
         (r.branchFromThought # Undef /\ r.branchId # Undef) =>
           LET i == KeyIndex(server.branches, r.branchId.s)
           IN /\ i # 0
              /\ Occurrences(server.branches.at[i], r)
                   = Occurrences(server.thoughtHistory, r)

\* C13: the result of processThought has isError = false for a valid
\* payload and isError = true for an invalid one.
C13_IsErrorBoolean ==
  output.done =>
    /\ output.ok => output.isError = Bool(FALSE)
    /\ ~output.ok => output.isError = Bool(TRUE)

\* C20: for every input, null and non-objects included, processThought
\* returns a result (a success, or an error with a message) and no exception
\* escapes.
C20_Total ==
  output.done =>
    /\ ~output.threw
    /\ output.isError \in {Undef, Bool(TRUE)}
    /\ (output.isError = Bool(TRUE)) <=> (output.message # "")

C20_Witness ==
  /\ output.done
  /\ input.kind = "null"
  /\ output.isError = Bool(TRUE)
  /\ output.message = ErrRead("null")

\* C14: a call on a registered session naming another tool returns the
\* unknown-tool error and leaves the session's history and branches as they
\* were, whatever the payload.
C14_UnknownTool ==
  [][\A h \in DOMAIN sessionStates :
       (/\ req'.name # ToolName
        /\ ToolCallStep(h, req'.name, req'.arguments))
         => /\ h \in DOMAIN sessionStates'
            /\ sessionStates'[h].server = sessionStates[h].server
            /\ resp'.result.isError = Bool(TRUE)
            /\ resp'.result.error = "Unknown tool: " \o req'.name]_vars

C14_Witness ==
  /\ LastCallFailed
  /\ req.name = "othertool"
  /\ resp.result.error = "Unknown tool: othertool"
  /\ req.arguments.thought = Str("A")
  /\ req.arguments.branchFromThought = Num(1)
  /\ req.arguments.branchId = Str("b1")
  /\ \E sid \in DOMAIN sessionStates :
       /\ resp.sessionId = sid
       /\ Len(sessionStates[sid].server.thoughtHistory) = 1
       /\ sessionStates[sid].server.branches.keys = <<>>

\* The record a valid payload is stored as: its nine fields, with
\* totalThoughts raised to thoughtNumber when that is larger.
StoredRecord(args) ==
  [thought |-> args.thought,
   thoughtNumber |-> args.thoughtNumber,
   totalThoughts |-> IF Twice(args.thoughtNumber) > Twice(args.totalThoughts)
                     THEN args.thoughtNumber ELSE args.totalThoughts,
   nextThoughtNeeded |-> args.nextThoughtNeeded,
   isRevision |-> args.isRevision,
   revisesThought |-> args.revisesThought,
   branchFromThought |-> args.branchFromThought,
   branchId |-> args.branchId,
   needsMoreThoughts |-> args.needsMoreThoughts]

\* C15: a successful call adds exactly its record at the end of the
\* history, and no step removes, reorders or changes a record already in the
\* history of a registered session.
C15_AppendOnly ==
  [][\A sid \in (DOMAIN sessionStates) \cap (DOMAIN sessionStates') :
       LET old == sessionStates[sid].server.thoughtHistory
           new == sessionStates'[sid].server.thoughtHistory
       IN /\ Len(new) >= Len(old)
          /\ SubSeq(new, 1, Len(old)) = old
          /\ (/\ ToolCallStep(sid, req'.name, req'.arguments)
              /\ resp'.result.isError # Bool(TRUE))
               => new = Append(old, StoredRecord(req'.arguments))]_vars

C15_Witness ==
  /\ LastCallSucceeded
  /\ \E sid \in DOMAIN sessionStates :
       LET h == sessionStates[sid].server.thoughtHistory
       IN /\ resp.sessionId = sid
          /\ Len(h) = 2
          /\ h[1].thoughtNumber = Num(2)
          /\ h[1].branchId = Str("b2")
          /\ h[2].thoughtNumber = Num(1)
          /\ h[2] = StoredRecord(req.arguments)

\* The step completes an admitted DELETE of session sid.
DeleteCloseStep(sid) ==
  /\ resp'.kind = "terminate"
  /\ resp'.sessionId = sid
  /\ DeleteClose(sid)

\* The step is a whole DELETE request carrying h.
DeleteStep(h) ==
  /\ resp'.sessionId = h
  /\ resp'.kind \in {"terminate", "invalidSession"}
  /\ DeleteSession(h)

\* C16: however an explicit termination, the cleanup timer and calls on
\* other sessions interleave, the two maps always hold the same ids, a
\* session leaves both maps in one step and only once, every cleanup run
\* completes, and a step that destroys sessions leaves every other session's
\* transport and state as they were.
C16_ConcurrentDestruction ==
  [][/\ DOMAIN transports' = DOMAIN sessionStates'
     /\ \A sid \in DOMAIN sessionStates :
          sid \notin DOMAIN sessionStates'
            => /\ sid \notin DOMAIN closedSessions
               /\ sid \in DOMAIN closedSessions'
               /\ sid \notin DOMAIN transports'
     /\ \A sid \in Headers \ {NoHeader} :
          (\/ DeleteCloseStep(sid)
           \/ sid \in DOMAIN transports /\ DeleteStep(sid)
           \/ sid \in DOMAIN sessionStates /\ Idle(sid) /\ TickStep)
            => /\ sid \notin DOMAIN sessionStates'
               /\ sid \notin DOMAIN transports'
               /\ sid \in DOMAIN closedSessions'
               /\ \A x \in (DOMAIN sessionStates) \ {sid} :
                    \/ Idle(x) /\ TickStep
                    \/ /\ x \in DOMAIN sessionStates'
                       /\ sessionStates'[x] = sessionStates[x]
                       /\ x \in DOMAIN transports'
                       /\ transports'[x] = transports[x]]_vars

C16_Witness ==
  \E sid \in DOMAIN closedSessions :
    /\ closedSessions[sid] = "timeout"
    /\ resp = Response("terminate", 200, sid, NoResult)
    /\ sid \notin inflight
    /\ \E other \in DOMAIN sessionStates :
         sessionStates[other].server.thoughtHistory # <<>>

C18_TerminationIdempotent ==
  [][\A h \in Headers :
       (h = NoHeader \/ h \notin DOMAIN transports)
         => /\ DeleteStep(h) => /\ resp'.status = 400
                                /\ UNCHANGED <<transports, sessionStates>>
            /\ DeleteCloseStep(h) => UNCHANGED <<transports, sessionStates>>]_vars

C18_Witness ==
  \E h \in DOMAIN closedSessions :
    /\ closedSessions[h] = "delete"
    /\ resp = InvalidSession(h)
    /\ \E other \in DOMAIN sessionStates :
         sessionStates[other].server.thoughtHistory # <<>>

\* C19: with the cleanup timer firing and the clock advancing fairly, every
\* registered session is removed from both maps once the calls have stopped.
C19_EventualCleanup ==
  \A sid \in 1..MaxSessions :
    (sid \in DOMAIN sessionStates)
      ~> (sid \notin DOMAIN sessionStates /\ sid \notin DOMAIN transports)

C19_Witness ==
  /\ now = Horizon
  /\ \E sid \in DOMAIN closedSessions :
       /\ closedSessions[sid] = "timeout"
       /\ sid \in reaped

\* The step is an initialization that registered session id.
InitStep(id) ==
  /\ resp'.kind = "initialize"
  /\ resp'.sessionId = id
  /\ PostInitialize(MaxSessions)

\* An initialization registers an id that was in neither map, with an empty
\* history, no branches and lastAccessed = now, and leaves every registered
\* session as it was.
FreshSession ==
  \A id \in Headers \ {NoHeader} :
    InitStep(id) =>
      /\ id \notin DOMAIN sessionStates /\ id \notin DOMAIN transports
      /\ id \in DOMAIN transports'
      /\ id \in DOMAIN sessionStates'
      /\ sessionStates'[id].server.thoughtHistory = <<>>
      /\ sessionStates'[id].server.branches.keys = <<>>
      /\ sessionStates'[id].lastAccessed = now
      /\ \A x \in DOMAIN sessionStates :
           /\ x \in DOMAIN sessionStates'
           /\ sessionStates'[x] = sessionStates[x]

\* The first successful tool call on a session returns thoughtHistoryLength
\* 1 and no branch id other than its own.
FirstCall ==
  \A sid \in DOMAIN sessionStates :
    (/\ sid \in DOMAIN successes
     /\ successes[sid] = 0
     /\ ToolCallStep(sid, req'.name, req'.arguments)
     /\ resp'.result.isError # Bool(TRUE))
      => /\ resp'.result.thoughtHistoryLength = 1
         /\ resp'.result.branches \in {<<>>, <<req'.arguments.branchId.s>>}

\* C21: an initialization without a session id registers a fresh id with an
\* empty ledger and lastAccessed = now without touching any other session,
\* and the first successful tool call on a session returns
\* thoughtHistoryLength 1 and an empty or own branches list.
C21_SessionCreation == [][FreshSession /\ FirstCall]_vars

\* C22: a session whose idle time is at most the timeout when the cleanup
\* runs is still in both maps after the run, with its history, branches and
\* lastAccessed unchanged.
C22_NonIdleKept ==
  [][TickStep =>
       \A sid \in DOMAIN sessionStates :
         now - sessionStates[sid].lastAccessed <= SESSION_TIMEOUT_MS
           => /\ sid \in DOMAIN sessionStates'
              /\ sessionStates'[sid].server = sessionStates[sid].server
              /\ sessionStates'[sid].lastAccessed =
                   sessionStates[sid].lastAccessed
              /\ sid \in DOMAIN transports'
              /\ transports'[sid] = transports[sid]
              /\ sid \notin reaped']_vars

C22_Witness ==
  /\ reaped # {}
  /\ \E sid \in DOMAIN sessionStates :
       /\ now - sessionStates[sid].lastAccessed = SESSION_TIMEOUT_MS
       /\ sessionStates[sid].server.thoughtHistory # <<>>
       /\ sid \in DOMAIN transports

\* C24: the transport map and the session state map hold the same session
\* ids in every reachable state.
C24_MapConsistency == DOMAIN transports = DOMAIN sessionStates

C24_Witness ==
  /\ reaped # {}
  /\ DOMAIN sessionStates # {}
  /\ \E sid \in DOMAIN sessionStates :
       /\ sid \in DOMAIN transports
       /\ sessionStates[sid].server.thoughtHistory # <<>>

\* The four required fields of args pass validation.
RequiredValid(args) ==
  /\ args.kind = "object"
  /\ PresentString(args.thought)
  /\ NonZeroNumber(args.thoughtNumber)
  /\ NonZeroNumber(args.totalThoughts)
  /\ PresentBoolean(args.nextThoughtNeeded)

\* C23: a tool call whose four required fields pass validation succeeds and
\* appends its record with the five optional fields stored as submitted,
\* whatever their values or types; a call whose required fields fail does
\* not succeed.
C23_OptionalTrusted ==
  [][\A sid \in DOMAIN sessionStates :
       ToolCallStep(sid, ToolName, req'.arguments)
         => IF RequiredValid(req'.arguments)
            THEN /\ resp'.result.isError # Bool(TRUE)
                 /\ sessionStates'[sid].server.thoughtHistory =
                      Append(sessionStates[sid].server.thoughtHistory,
                             StoredRecord(req'.arguments))
            ELSE resp'.result.isError = Bool(TRUE)]_vars

\* q is h with some elements left out: the elements of q occur in h in the
\* same relative order.
RECURSIVE Embeds(_, _)
Embeds(q, h) ==
  IF q = <<>> THEN TRUE
  ELSE IF h = <<>> THEN FALSE
  ELSE IF Head(q) = Head(h) THEN Embeds(Tail(q), Tail(h))
  ELSE Embeds(q, Tail(h))

\* Every bucket of the branch index is non-empty and lists records of the
\* history in the history's order, all satisfying Tagged(record, key); there
\* are no more keys than records in the history.
BranchesDerived(Tagged(_, _)) ==
  \A sid \in DOMAIN sessionStates :
    LET server == sessionStates[sid].server
    IN /\ Len(server.branches.keys) = Len(server.branches.at)
       /\ Len(server.branches.keys) <= Len(server.thoughtHistory)
       /\ \A i \in 1..Len(server.branches.keys) :
            /\ server.branches.at[i] # <<>>
            /\ Embeds(server.branches.at[i], server.thoughtHistory)
            /\ \A r \in Range(server.branches.at[i]) :
                 Tagged(r, server.branches.keys[i])

TaggedExactly(r, b) == r.branchId = Str(b)

TaggedAsKey(r, b) == ToKey(r.branchId) = b

\* C25 as stated: every branches[b] is non-empty, holds only records of the
\* history, in the history's order, whose branchId is b, and there are no
\* more branch ids than records in the history.
C25_Original == BranchesDerived(TaggedExactly)

\* C25 as amended: every branches[b] is non-empty, holds only records of
\* the history, in the history's order, whose branchId converted to a string
\* is b, and there are no more branch ids than records in the history.
C25_BranchesDerived == BranchesDerived(TaggedAsKey)

C25_Witness ==
  \E sid \in DOMAIN sessionStates :
    LET server == sessionStates[sid].server
    IN /\ Len(server.thoughtHistory) = 2
       /\ server.branches.keys = <<"b1">>
       /\ Len(server.branches.at[1]) = 2
       /\ server.branches.at[1][1] # server.branches.at[1][2]
       /\ server.branches.at[1][1].branchFromThought = Frac(1)

====
